---------------------------- MODULE Spec2Model ----------------------------
(***************************************************************************)
(* The post handlers of echo-api (src/app/posts_router.py): like toggling, *)
(* listen counting, post deletion, post creation from text and from a      *)
(* recording, transcription and the reads, over the posts / post_likes     *)
(* tables of src/app/tables.py, the storage bucket and the local temporary *)
(* files, with one logical task per inbound request.                       *)
(*                                                                         *)
(* Every `await` on the relational store is one atomic statement of the    *)
(* store; a handler is a sequence of such statements, and statements of    *)
(* different requests interleave freely (no handler opens a transaction).  *)
(* A handler runs up to its next statement on the store (or on the bucket) *)
(* in one step: what it computes locally in between, raising included, is  *)
(* part of the step of the statement before it, and a request arrives with *)
(* its first statement.                                                    *)
(*                                                                         *)
(* Rows come from `Table.select()...first()`, which yields a plain dict    *)
(* (the handlers subscript them: post["author"], updated_post["likes"],    *)
(* post_data["username"] = ...; auth.py does user["hashed_password"]).     *)
(* A dict has no remove(), so `existing_like.remove()` (line 577) and      *)
(* `post.remove()` (line 626) raise AttributeError: the request ends with  *)
(* status 500 at that point and the row stays in the table.                *)
(***************************************************************************)
EXTENDS Integers, FiniteSets, Sequences, Bags, TLC

\* ------------------------------------------------------------------ bounds
NumUsers == 2
MaxPosts == 1
MaxReq == 2

Users == 1..NumUsers
PostIds == 1..MaxPosts

VARIABLES
    posts,          \* table posts: id -> row
    post_likes,     \* table post_likes: the bag of its rows' (user, post)
    next_post_id,   \* Serial primary key of posts
    blobs,          \* object names present in the storage bucket
    next_blob,      \* stands for uuid.uuid4(): a name never handed out before
    inflight,       \* the bag of requests being handled: arguments, locals, position
    arrivals,       \* number of requests received so far
    tempfiles,      \* temporary files on the local disk, by the request that made them
    response        \* the response sent last

vars == <<posts, post_likes, next_post_id, blobs, next_blob, inflight, arrivals,
          tempfiles, response>>

\* ------------------------------------------------------------------ rows
\* Post(...) as the creation handlers build it; likes and listen_count take
\* the column defaults. A text is the sequence of its characters;
\* voice_file_path 0 stands for NULL.
NewPost(author, text, url, duration, style, tags) ==
    [author |-> author, text_content |-> text, voice_file_path |-> url,
     duration |-> duration, voice_style |-> style, tags |-> tags,
     likes |-> 0, listen_count |-> 0]

\* PostLike(user=user_id, post=post_id). The row's id and created_at are
\* never read, so a row is known by its (user, post) and the table is a bag.
NewLike(u, p) == [user |-> u, post |-> p]

\* `Post.select().where(Post.id == post_id).first()`: <<row>> or <<>> (None).
SelectPost(p) == IF p \in DOMAIN posts THEN <<posts[p]>> ELSE <<>>

\* Number of rows `PostLike.select().where((user == u) & (post == p))` matches.
LikesOf(u, p) == CopiesIn(NewLike(u, p), post_likes)

\* Number of post_likes rows that reference post p.
LikeRows(p) ==
    LET mine == {l \in BagToSet(post_likes) : l.post = p}
        sum[S \in SUBSET mine] ==
            IF S = {} THEN 0
            ELSE LET l == CHOOSE x \in S : TRUE
                 IN  CopiesIn(l, post_likes) + sum[S \ {l}]
    IN  sum[mine]

\* ------------------------------------------------------------------ requests
\* A request in flight: its arguments, its position and its locals `post`,
\* `existing_like` and `is_liked` (<<>> is None).
Request(kind, u, p, pc) ==
    [kind |-> kind, user |-> u, post_id |-> p, pc |-> pc, post |-> <<>>,
     existing_like |-> <<>>, is_liked |-> FALSE]

\* The response of request q: status code and, for a like, the body.
Response(q, code, total) ==
    [kind |-> q.kind, user |-> q.user, post_id |-> q.post_id, status |-> code,
     is_liked |-> q.is_liked, total_likes |-> total]

NoResponse ==
    [kind |-> "none", user |-> 0, post_id |-> 0, status |-> 0,
     is_liked |-> FALSE, total_likes |-> 0]

Running == BagToSet(inflight)

\* Request q moves on as q2.
Moved(q, q2) == (inflight (-) SetToBag({q})) (+) SetToBag({q2})

\* Request q is answered.
Answered(q) == inflight (-) SetToBag({q})

Init ==
    /\ posts = <<>>
    /\ post_likes = EmptyBag
    /\ next_post_id = 1
    /\ blobs = {}
    /\ next_blob = 1
    /\ inflight = EmptyBag
    /\ arrivals = 0
    /\ tempfiles = {}
    /\ response = NoResponse

\* ------------------------------------------------------------------ create_post
\* POST /posts with content "a" in the default style, drawing the one tag
\* "music", taken as one step. The
\* voice step either uploads the synthesized audio (of length 2) under a
\* fresh name and yields its URL, or fails and yields None; the post is saved
\* either way.
CreatePostUpTo(u, voiced, n) ==
    /\ next_post_id <= n
    /\ posts' = posts @@ (next_post_id :>
                    NewPost(u, <<"a">>, IF voiced THEN next_blob ELSE 0,
                            IF voiced THEN 2 ELSE 0, "natural", <<"music">>))
    /\ next_post_id' = next_post_id + 1
    /\ blobs' = IF voiced THEN blobs \cup {next_blob} ELSE blobs
    /\ next_blob' = IF voiced THEN next_blob + 1 ELSE next_blob
    /\ UNCHANGED <<post_likes, inflight, arrivals, tempfiles, response>>

CreatePost(u, voiced) == CreatePostUpTo(u, voiced, MaxPosts)

\* ------------------------------------------------------------------ toggle_like_post
\* Mutant of PostNotFound: the existence check is left out.
NeverNotFound(row) == FALSE

\* Lines 567-570: `if not post: raise HTTPException(404)`.
PostNotFound(row) == row = <<>>

\* Lines 565-570: POST /posts/{p}/like from authenticated user u selects the
\* post; 404 when there is none.
ToggleSelectPost(u, p) ==
    /\ arrivals < MaxReq
    /\ arrivals' = arrivals + 1
    /\ IF PostNotFound(SelectPost(p))
       THEN /\ response' = Response(Request("toggle", u, p, "t_post"), 404, 0)
            /\ inflight' = inflight
       ELSE /\ inflight' = inflight (+)
                   SetToBag({[Request("toggle", u, p, "t_like")
                                 EXCEPT !.post = SelectPost(p)]})
            /\ response' = response
    /\ UNCHANGED <<posts, post_likes, next_post_id, blobs, next_blob, tempfiles>>

\* Lines 573-577: `.first()` of the caller's like rows on the post: a
\* matching row, or None. With a row the handler goes on to
\* `existing_like.remove()`: the row is a dict, the call raises
\* AttributeError, nothing is removed and line 578 is never reached.
ToggleSelectLike(q) ==
    /\ q.kind = "toggle" /\ q.pc = "t_like"
    /\ IF LikesOf(q.user, q.post_id) = 0
       THEN /\ inflight' = Moved(q, [q EXCEPT !.pc = "t_insert"])
            /\ response' = response
       ELSE /\ inflight' = Answered(q)
            /\ response' = Response(q, 500, 0)
    /\ UNCHANGED <<posts, post_likes, next_post_id, blobs, next_blob, arrivals, tempfiles>>

\* Lines 583-584: `new_like.save()` inserts the row.
ToggleInsert(q) ==
    /\ q.kind = "toggle" /\ q.pc = "t_insert"
    /\ post_likes' = post_likes (+) SetToBag({NewLike(q.user, q.post_id)})
    /\ inflight' = Moved(q, [q EXCEPT !.pc = "t_update"])
    /\ UNCHANGED <<posts, next_post_id, blobs, next_blob, arrivals, response, tempfiles>>

\* Mutant of LikesIncremented: the new counter is computed from the row
\* selected at line 568, a read-modify-write.
LikesFromSnapshot(q) ==
    [p \in DOMAIN posts |->
        IF p = q.post_id THEN [posts[p] EXCEPT !.likes = q.post[1].likes + 1]
                         ELSE posts[p]]

\* Mutant of LikesIncremented: the UPDATE has no WHERE clause.
LikesOfAllIncremented(q) ==
    [p \in DOMAIN posts |-> [posts[p] EXCEPT !.likes = @ + 1]]

\* Mutant of LikesIncremented: the counter is decreased.
LikesDecremented(q) ==
    [p \in DOMAIN posts |->
        IF p = q.post_id THEN [posts[p] EXCEPT !.likes = @ - 1] ELSE posts[p]]

\* Line 585: UPDATE posts SET likes = likes + 1 WHERE id = post_id, one
\* statement of the store.
LikesIncremented(q) ==
    [p \in DOMAIN posts |->
        IF p = q.post_id THEN [posts[p] EXCEPT !.likes = @ + 1] ELSE posts[p]]

\* Lines 585-587.
ToggleUpdate(q) ==
    /\ q.kind = "toggle" /\ q.pc = "t_update"
    /\ posts' = LikesIncremented(q)
    /\ inflight' = Moved(q, [q EXCEPT !.is_liked = TRUE, !.pc = "t_read"])
    /\ UNCHANGED <<post_likes, next_post_id, blobs, next_blob, arrivals, response, tempfiles>>

\* Mutant of ReadBackLikes: the total is computed from the row selected at
\* line 568 instead of being read back.
TotalFromSnapshot(q) == q.post[1].likes + 1

\* Lines 590-591: total_likes = updated_post["likes"] of a fresh select.
ReadBackLikes(q) == SelectPost(q.post_id)[1].likes

\* Lines 589-593: read the counter back and respond; subscripting None
\* raises TypeError when the post is gone.
ToggleRespond(q) ==
    /\ q.kind = "toggle" /\ q.pc = "t_read"
    /\ response' = IF SelectPost(q.post_id) = <<>>
                   THEN Response(q, 500, 0)
                   ELSE Response(q, 200, ReadBackLikes(q))
    /\ inflight' = Answered(q)
    /\ UNCHANGED <<posts, post_likes, next_post_id, blobs, next_blob, arrivals, tempfiles>>

\* ------------------------------------------------------------------ increment_listen_count
\* Lines 597-601: POST /posts/{p}/listen, no authentication: the handler
\* does not know its caller (user 0).
ListenSelectPost(p) ==
    /\ arrivals < MaxReq
    /\ arrivals' = arrivals + 1
    /\ IF SelectPost(p) = <<>>
       THEN /\ response' = Response(Request("listen", 0, p, "l_post"), 404, 0)
            /\ inflight' = inflight
       ELSE /\ inflight' = inflight (+)
                   SetToBag({[Request("listen", 0, p, "l_update")
                                 EXCEPT !.post = SelectPost(p)]})
            /\ response' = response
    /\ UNCHANGED <<posts, post_likes, next_post_id, blobs, next_blob, tempfiles>>

\* Mutant of ListenIncremented: the new counter is computed from the row
\* selected at line 599, a read-modify-write.
ListenFromSnapshot(q) ==
    [p \in DOMAIN posts |->
        IF p = q.post_id THEN [posts[p] EXCEPT !.listen_count = q.post[1].listen_count + 1]
                         ELSE posts[p]]

\* Line 603: UPDATE posts SET listen_count = listen_count + 1 WHERE id = post_id.
ListenIncremented(q) ==
    [p \in DOMAIN posts |->
        IF p = q.post_id THEN [posts[p] EXCEPT !.listen_count = @ + 1] ELSE posts[p]]

\* Lines 603-604.
ListenUpdate(q) ==
    /\ q.kind = "listen" /\ q.pc = "l_update"
    /\ posts' = ListenIncremented(q)
    /\ inflight' = Answered(q)
    /\ response' = Response(q, 200, 0)
    /\ UNCHANGED <<post_likes, next_post_id, blobs, next_blob, arrivals, tempfiles>>

\* ------------------------------------------------------------------ delete_post
\* Line 626: `post.remove()` on the dict `post` raises AttributeError: the
\* Post row stays in the table, and lines 626-628 end with status 500.
PostsAfterRemove(q) == posts

RemoveStatus(q) == 500

\* Mutant of NotAuthor: the ownership check is left out.
AnyoneMayDelete(row, u) == FALSE

\* Lines 615-616: `if post["author"] != user_id: raise HTTPException(403)`.
NotAuthor(row, u) == row[1].author # u

\* Lines 609-616: DELETE /posts/{p} from user u: 404 when the post is
\* missing, then 403 when the caller is not its author.
DeleteSelectPost(u, p) ==
    /\ arrivals < MaxReq
    /\ arrivals' = arrivals + 1
    /\ LET q == Request("delete", u, p, "d_post")
           row == SelectPost(p)
       IN  IF row = <<>>
           THEN /\ response' = Response(q, 404, 0)
                /\ inflight' = inflight
           ELSE IF NotAuthor(row, u)
           THEN /\ response' = Response(q, 403, 0)
                /\ inflight' = inflight
           ELSE /\ inflight' = inflight (+)
                       SetToBag({[q EXCEPT !.post = row, !.pc = "d_likes"]})
                /\ response' = response
    /\ UNCHANGED <<posts, post_likes, next_post_id, blobs, next_blob, tempfiles>>

\* Line 619: DELETE FROM post_likes WHERE post = post_id. With a null
\* voice_file_path (line 622) the handler goes straight on to line 626.
DeleteLikes(q) ==
    /\ q.kind = "delete" /\ q.pc = "d_likes"
    /\ post_likes' = post_likes (-)
           [l \in {x \in BagToSet(post_likes) : x.post = q.post_id} |->
               CopiesIn(l, post_likes)]
    /\ IF q.post[1].voice_file_path # 0
       THEN /\ inflight' = Moved(q, [q EXCEPT !.pc = "d_blob"])
            /\ UNCHANGED <<posts, response>>
       ELSE /\ inflight' = Answered(q)
            /\ posts' = PostsAfterRemove(q)
            /\ response' = Response(q, RemoveStatus(q), 0)
    /\ UNCHANGED <<next_post_id, blobs, next_blob, arrivals, tempfiles>>

\* Lines 200-209, 623: delete_voice_file removes the object or fails; the
\* failure is printed and swallowed. Then line 626.
DeleteBlob(q) ==
    /\ q.kind = "delete" /\ q.pc = "d_blob"
    /\ \E removed \in BOOLEAN :
         blobs' = IF removed THEN blobs \ {q.post[1].voice_file_path} ELSE blobs
    /\ inflight' = Answered(q)
    /\ posts' = PostsAfterRemove(q)
    /\ response' = Response(q, RemoveStatus(q), 0)
    /\ UNCHANGED <<post_likes, next_post_id, next_blob, arrivals, tempfiles>>

\* ------------------------------------------------------------------ texts
\* A text (form field, transcript, file name) is the sequence of its
\* characters; " " is the whitespace character.
MaxLen == 2

Chars == {" ", "a"}

Whitespace == {" "}

Texts == UNION {[1..n -> Chars] : n \in 0..MaxLen}

\* str.strip(): the text from its first to its last non-whitespace character.
Strip(s) ==
    LET ink == {i \in 1..Len(s) : s[i] \notin Whitespace}
    IN  IF ink = {} THEN <<>>
        ELSE SubSeq(s, CHOOSE i \in ink : \A j \in ink : i <= j,
                       CHOOSE i \in ink : \A j \in ink : i >= j)

\* The voice styles a client sends.
Styles == {"natural", "calm"}

\* What get_audio_duration(...) or 0.0 yields: 0 when mutagen cannot tell.
Durations == {0, 2}

\* ------------------------------------------------------------------ create_post
\* Lines 223-257: the vocabulary, cut down to its first three entries.
available_tags == <<"music", "podcast", "story">>

\* Mutant of TagLists: the tags are drawn with replacement.
TagListsWithRepeats ==
    UNION {[1..n -> {available_tags[i] : i \in DOMAIN available_tags}] : n \in 1..3}

\* Lines 261-262: what random.sample(available_tags, random.randint(1, 3))
\* can return: the tags at 1 to 3 different positions, in any order.
TagLists ==
    {[i \in 1..Len(at) |-> available_tags[at[i]]] :
        at \in {x \in UNION {[1..n -> DOMAIN available_tags] : n \in 1..3} :
                  \A i, j \in DOMAIN x : i # j => x[i] # x[j]}}

\* The creation requests in flight; each will take one Serial id at most.
CreatorsInFlight ==
    BagCardinality([q \in {x \in Running : x.kind \in {"create", "record"}} |->
                       CopiesIn(q, inflight)])

\* The posts table has room for the posts of the requests in flight and one more.
RoomForPost == next_post_id + CreatorsInFlight <= MaxPosts

\* A create_post request in flight: its arguments, its position and the
\* locals voice_file_url (0 is None), duration and new_post.id.
TextRequest(u, content, style, tag_list) ==
    [kind |-> "create", user |-> u, post_id |-> 0, pc |-> "c_voice",
     content |-> content, voice_style |-> style, tag_list |-> tag_list,
     voice_file_url |-> 0, duration |-> 0, is_liked |-> FALSE]

\* Mutant of Blank: only the empty text is refused.
BlankOnlyWhenEmpty(s) == s = <<>>

\* Line 324: `not content or not content.strip()`.
Blank(s) == s = <<>> \/ Strip(s) = <<>>

\* Lines 324-334: POST /posts from user u. Blank content is answered 400;
\* otherwise the handler draws the tags (tag_list is what
\* generate_random_tags returns) and sends the text to the synthesis service.
CreateTextArrive(u, content, style, tag_list) ==
    /\ arrivals < MaxReq
    /\ arrivals' = arrivals + 1
    /\ IF Blank(content)
       THEN /\ response' = Response(TextRequest(u, content, style, <<>>), 400, 0)
            /\ inflight' = inflight
       ELSE /\ RoomForPost
            /\ inflight' = inflight (+)
                   SetToBag({TextRequest(u, content, style, tag_list)})
            /\ response' = response
    /\ UNCHANGED <<posts, post_likes, next_post_id, blobs, next_blob, tempfiles>>

\* How the voice step ends (lines 159-197): "failed" when the service is
\* unreachable or answers a non-200 status or the upload raises, "lost" when
\* the object was uploaded and get_public_url or os.unlink raised after it,
\* "ok" when the public URL is returned. Every exception ends in
\* `return None, None` (lines 195-197).
VoiceOutcomes == {"failed", "lost", "ok"}

\* Mutant of AfterVoice: the handler answers right after the voice step.
VoiceSkipsSave == "c_read"

\* Mutant of AfterVoice: the voice step is entered again.
VoiceAgain == "c_voice"

\* Lines 334-338: generate_voice_from_text is awaited once, then the post is
\* built and saved.
AfterVoice == "c_save"

\* Lines 159-197, 334: the synthesis service answers; the audio is uploaded
\* under a fresh name. generate_voice_from_text returns (url, duration) or
\* (None, None).
CreateTextVoice(q) ==
    /\ q.kind = "create" /\ q.pc = "c_voice"
    /\ \E outcome \in VoiceOutcomes, d \in Durations :
         /\ blobs' = IF outcome = "failed" THEN blobs ELSE blobs \cup {next_blob}
         /\ next_blob' = IF outcome = "failed" THEN next_blob ELSE next_blob + 1
         /\ inflight' = Moved(q, [q EXCEPT
                !.voice_file_url = IF outcome = "ok" THEN next_blob ELSE 0,
                !.duration = IF outcome = "ok" THEN d ELSE 0,
                !.pc = AfterVoice])
    /\ UNCHANGED <<posts, post_likes, next_post_id, arrivals, tempfiles, response>>

\* Mutant of TextToSave: the content is saved as it was sent.
RawText(q) == q.content

\* Line 339: text_content=content.strip().
TextToSave(q) == Strip(q.content)

\* Lines 338-346: `new_post.save()` inserts the row under the next Serial id.
CreateTextSave(q) ==
    /\ q.kind = "create" /\ q.pc = "c_save"
    /\ posts' = posts @@ (next_post_id :>
                    NewPost(q.user, TextToSave(q), q.voice_file_url, q.duration,
                            q.voice_style, q.tag_list))
    /\ next_post_id' = next_post_id + 1
    /\ inflight' = Moved(q, [q EXCEPT !.post_id = next_post_id, !.pc = "c_read"])
    /\ UNCHANGED <<post_likes, blobs, next_blob, arrivals, tempfiles, response>>

\* Lines 349-356: the row is selected again and formatted; subscripting None
\* raises TypeError when it is gone.
CreateTextRespond(q) ==
    /\ q.kind = "create" /\ q.pc = "c_read"
    /\ response' = IF SelectPost(q.post_id) = <<>>
                   THEN Response(q, 500, 0)
                   ELSE Response(q, 200, SelectPost(q.post_id)[1].likes)
    /\ inflight' = Answered(q)
    /\ UNCHANGED <<posts, post_likes, next_post_id, blobs, next_blob, arrivals, tempfiles>>

\* ------------------------------------------------------------------ uploaded recordings
\* Line 34.
SUPPORTED_AUDIO_FORMATS ==
    { <<".", "m", "p", "3">>, <<".", "w", "a", "v">>, <<".", "m", "4", "a">>,
      <<".", "o", "g", "g">>, <<".", "w", "e", "b", "m">>, <<".", "m", "p", "4">>,
      <<".", "m", "p", "e", "g">>, <<".", "m", "p", "g", "a">>,
      <<".", "f", "l", "a", "c">> }

\* str.lower() on the letters that occur in the file names below.
Lower(s) ==
    [i \in 1..Len(s) |->
        CASE s[i] = "M" -> "m" [] s[i] = "P" -> "p" [] OTHER -> s[i]]

\* os.path.splitext(name)[1]: the text from the last dot on, or the empty
\* text when there is no dot or only dots come before the last one.
SplitExt(s) ==
    LET dots == {i \in 1..Len(s) : s[i] = "."}
    IN  IF dots = {} THEN <<>>
        ELSE LET k == CHOOSE i \in dots : \A j \in dots : i >= j
             IN  IF \E i \in 1..(k - 1) : s[i] # "." THEN SubSeq(s, k, Len(s))
                 ELSE <<>>

\* Lines 212-218.
validate_audio_file(file) ==
    /\ file.filename # <<>>
    /\ SplitExt(Lower(file.filename)) \in SUPPORTED_AUDIO_FORMATS

\* Lines 280, 374: the 10 MiB limit.
MaxUploadBytes == 10 * 1024 * 1024

\* Mutant of TooLarge: the size check is left out.
NeverTooLarge(file) == FALSE

\* Lines 374-375: `audio_file.size and audio_file.size > 10 * 1024 * 1024`.
TooLarge(file) == file.size # 0 /\ file.size > MaxUploadBytes

\* The uploads a client sends: a file name and a payload size.
Files ==
    [filename : { <<>>, <<"a">>, <<".", "m", "p", "3">>, <<"a", ".", "t", "x", "t">>,
                  <<"a", ".", "m", "p", "3">>, <<"a", ".", "M", "P", "3">> },
     size : {0, MaxUploadBytes, MaxUploadBytes + 1}]

\* A request of create_post_from_recording ("record") or transcribe_audio_only
\* ("transcribe") in flight: its arguments, its position, the temporary file
\* made for it, and the locals temp_file_path (0 is None), duration,
\* transcribed_text (<<>> is None, <<t>> the text t), original_audio_url
\* (0 is None) and new_post.id.
FileRequest(kind, u, file, temp) ==
    [kind |-> kind, user |-> u, post_id |-> 0, pc |-> "r_read", file |-> file,
     temp_file |-> temp, temp_file_path |-> 0, duration |-> 0,
     transcribed_text |-> <<>>, tag_list |-> <<>>, original_audio_url |-> 0,
     is_liked |-> FALSE]

\* Lines 447-453, 308-314: the finally block unlinks the file named by
\* temp_file_path, when that is set; a failing unlink is printed and dropped.
CleanedUp(q, unlinked) ==
    IF q.temp_file_path # 0 /\ unlinked THEN tempfiles \ {q.temp_file_path}
                                         ELSE tempfiles

\* The `detail` of the HTTPException that goes with a transcript status
\* (lines 392, 395), "" with none.
TranscriptDetail(code) ==
    CASE code = 500 -> "Failed to transcribe audio. Please try again."
      [] code = 400 -> "No speech detected in the audio file"
      [] OTHER -> ""

\* The `detail` of the HTTPException that refuses an upload (lines 368-375).
RefusalDetail(file) ==
    IF ~validate_audio_file(file) THEN "Unsupported audio format"
                                  ELSE "Audio file too large. Maximum size is 10MB"

\* The response of a file request: as Response, with the exception's detail.
FileResponse(q, code, detail) == Response(q, code, 0) @@ [detail |-> detail]

\* Request q ends with status `code`, through its finally block.
Finished(q, code, detail) ==
    /\ response' = FileResponse(q, code, detail)
    /\ inflight' = Answered(q)
    /\ \E unlinked \in BOOLEAN : tempfiles' = CleanedUp(q, unlinked)

\* Lines 366-381: POST /posts/from-recording from user u. A bad extension
\* and then an oversized payload are answered 400; otherwise
\* NamedTemporaryFile makes the temporary file and the upload is read.
RecordingArrive(u, file) ==
    /\ arrivals < MaxReq
    /\ arrivals' = arrivals + 1
    /\ LET q == FileRequest("record", u, file, arrivals + 1)
       IN  IF ~validate_audio_file(file) \/ TooLarge(file)
           THEN /\ response' = FileResponse(q, 400, RefusalDetail(file))
                /\ UNCHANGED <<inflight, tempfiles>>
           ELSE /\ RoomForPost
                /\ tempfiles' = tempfiles \cup {q.temp_file}
                /\ inflight' = inflight (+) SetToBag({q})
                /\ response' = response
    /\ UNCHANGED <<posts, post_likes, next_post_id, blobs, next_blob>>

\* Lines 381-389: the upload is read and written to the temporary file, and
\* only then is temp_file_path set; the duration is measured and the file is
\* sent to the transcription service. When reading or writing raises, line
\* 443 turns it into 500 and the finally block finds temp_file_path None.
RecordingRead(q) ==
    /\ q.kind = "record" /\ q.pc = "r_read"
    /\ \/ /\ \E d \in Durations :
                inflight' = Moved(q, [q EXCEPT !.temp_file_path = q.temp_file,
                                               !.duration = d,
                                               !.pc = "r_transcribe"])
          /\ UNCHANGED <<tempfiles, response>>
       \/ Finished(q, 500, "Failed to process recording")
    /\ UNCHANGED <<posts, post_likes, next_post_id, blobs, next_blob, arrivals>>

\* Lines 95-128: what transcribe_audio_to_text returns: None when the
\* service is unreachable or answers a non-200 status, else the stripped text.
Transcribed(served, raw) == IF served THEN <<Strip(raw)>> ELSE <<>>

\* Lines 111-128: the transcription service answers the call of request q:
\* with the text `raw` when `served`, with an error or not at all otherwise.
Transcribe(q, served, raw) ==
    /\ q.kind \in {"record", "transcribe"} /\ q.pc = "r_transcribe"
    /\ inflight' = Moved(q, [q EXCEPT !.transcribed_text = Transcribed(served, raw),
                                      !.pc = "r_check"])
    /\ UNCHANGED <<posts, post_likes, next_post_id, blobs, next_blob, arrivals,
                   tempfiles, response>>

\* Lines 391-395, 294-298: `if not transcribed_text` raises 500 for None and
\* for the empty text; `if not transcribed_text.strip()` raises 400.
TranscriptStatus(t) ==
    IF t = <<>> \/ t[1] = <<>> THEN 500
    ELSE IF Strip(t[1]) = <<>> THEN 400
    ELSE 200

\* Mutant of MayUpload: the recording is uploaded whatever the transcript.
AlwaysUpload(q) == TRUE

\* Lines 391-400: the upload is reached only past both transcript checks.
MayUpload(q) == TranscriptStatus(q.transcribed_text) = 200

\* How the upload of the original recording ends (lines 402-414): "failed"
\* when upload raises, "lost" when the object was uploaded and get_public_url
\* raised, "ok" otherwise. Both failures are printed and dropped, leaving
\* original_audio_url None.
UploadOutcomes == {"failed", "lost", "ok"}

\* Lines 391-414: the handler checks the transcript, draws the tags
\* (tag_list is what generate_random_tags returns) and uploads the original
\* recording under a fresh name.
RecordingUpload(q, tag_list) ==
    /\ q.kind = "record" /\ q.pc = "r_check"
    /\ IF MayUpload(q)
       THEN /\ \E outcome \in UploadOutcomes :
                 /\ blobs' = IF outcome = "failed" THEN blobs ELSE blobs \cup {next_blob}
                 /\ next_blob' = IF outcome = "failed" THEN next_blob ELSE next_blob + 1
                 /\ inflight' = Moved(q, [q EXCEPT
                        !.original_audio_url = IF outcome = "ok" THEN next_blob ELSE 0,
                        !.tag_list = tag_list,
                        !.pc = "r_save"])
            /\ UNCHANGED <<tempfiles, response>>
       ELSE /\ Finished(q, TranscriptStatus(q.transcribed_text),
                         TranscriptDetail(TranscriptStatus(q.transcribed_text)))
            /\ UNCHANGED <<blobs, next_blob>>
    /\ UNCHANGED <<posts, post_likes, next_post_id, arrivals>>

\* Lines 418-426: `new_post.save()` inserts the row under the next Serial
\* id; when the store raises, line 443 turns it into 500.
RecordingSave(q) ==
    /\ q.kind = "record" /\ q.pc = "r_save"
    /\ \/ /\ posts' = posts @@ (next_post_id :>
                          NewPost(q.user, Strip(q.transcribed_text[1]),
                                  q.original_audio_url, q.duration, "original",
                                  q.tag_list))
          /\ next_post_id' = next_post_id + 1
          /\ inflight' = Moved(q, [q EXCEPT !.post_id = next_post_id, !.pc = "r_respond"])
          /\ UNCHANGED <<tempfiles, response>>
       \/ /\ Finished(q, 500, "Failed to process recording")
          /\ UNCHANGED <<posts, next_post_id>>
    /\ UNCHANGED <<post_likes, blobs, next_blob, arrivals>>

\* Lines 429-439: the row is selected again and formatted; subscripting None
\* raises TypeError (500 by line 443) when it is gone.
RecordingRespond(q) ==
    /\ q.kind = "record" /\ q.pc = "r_respond"
    /\ IF SelectPost(q.post_id) = <<>>
       THEN Finished(q, 500, "Failed to process recording")
       ELSE Finished(q, 200, "")
    /\ UNCHANGED <<posts, post_likes, next_post_id, blobs, next_blob, arrivals>>

\* ------------------------------------------------------------------ transcribe_audio_only
\* Lines 272-287: POST /posts/transcribe, with the checks of lines 366-375.
TranscribeArrive(u, file) ==
    /\ arrivals < MaxReq
    /\ arrivals' = arrivals + 1
    /\ LET q == FileRequest("transcribe", u, file, arrivals + 1)
       IN  IF ~validate_audio_file(file) \/ TooLarge(file)
           THEN /\ response' = FileResponse(q, 400, RefusalDetail(file))
                /\ UNCHANGED <<inflight, tempfiles>>
           ELSE /\ tempfiles' = tempfiles \cup {q.temp_file}
                /\ inflight' = inflight (+) SetToBag({q})
                /\ response' = response
    /\ UNCHANGED <<posts, post_likes, next_post_id, blobs, next_blob>>

\* Lines 287-292: as lines 381-389, without the duration.
TranscribeRead(q) ==
    /\ q.kind = "transcribe" /\ q.pc = "r_read"
    /\ \/ /\ inflight' = Moved(q, [q EXCEPT !.temp_file_path = q.temp_file,
                                             !.pc = "r_transcribe"])
          /\ UNCHANGED <<tempfiles, response>>
       \/ Finished(q, 500, "Failed to process recording")
    /\ UNCHANGED <<posts, post_likes, next_post_id, blobs, next_blob, arrivals>>

\* Lines 294-314: the transcript checks, and the text as the result.
TranscribeRespond(q) ==
    /\ q.kind = "transcribe" /\ q.pc = "r_check"
    /\ Finished(q, TranscriptStatus(q.transcribed_text),
                TranscriptDetail(TranscriptStatus(q.transcribed_text)))
    /\ UNCHANGED <<posts, post_likes, next_post_id, blobs, next_blob, arrivals>>

\* ------------------------------------------------------------------ get_posts, get_my_posts, get_post
\* The offsets and limits a client sends (limit defaults to 10); both are
\* any int, unchecked by the handlers.
Skips == {-1, 0, 1}

Limits == {-1, 1, 10}

\* Lines 462, 508-514: the numbers go into the statement as they are, and
\* the store rejects a negative OFFSET or LIMIT: the select raises and the
\* request ends with status 500.
PageRefused(skip, limit) == skip < 0 \/ limit < 0

\* The ids of S, latest first. Posts are ordered by created_at, which is
\* set when the row is built; ids follow it when posts are created one at
\* a time.
RECURSIVE Latest(_)
Latest(S) ==
    IF S = {} THEN <<>>
    ELSE LET top == CHOOSE i \in S : \A j \in S : i >= j
         IN  <<top>> \o Latest(S \ {top})

\* `.offset(skip).limit(limit).order_by(Post.created_at, ascending=False)`
\* over the rows with the ids S.
Page(S, skip, limit) ==
    LET all == Latest(S)
        last == IF skip + limit < Len(all) THEN skip + limit ELSE Len(all)
    IN  SubSeq(all, skip + 1, last)

\* The posts of author u.
PostsOf(u) == {p \in DOMAIN posts : posts[p].author = u}

\* A read request in flight: its arguments, its position and the locals
\* `posts` (the ids of the selected page), `total` and, in get_post, `post`
\* (the selected row, <<>> is None).
ReadRequest(kind, u, p, pc, page) ==
    [kind |-> kind, user |-> u, post_id |-> p, pc |-> pc, page |-> page, total |-> 0,
     skip |-> 0, limit |-> 1, post |-> <<>>]

\* What random.randint(1, 100) yields, cut down to its two ends.
RandomListens == {1, 100}

\* Line 91 of format_post_response:
\* `post.get("listen_count") or random.randint(1, 100)`, r being the number
\* drawn: a stored 0 is falsy and the drawn number is shown instead.
ListenCountShown(row, r) == IF row.listen_count # 0 THEN row.listen_count ELSE r

\* A listing request in flight, with its skip and limit.
ListRequest(kind, u, pc, page, skip, limit) ==
    [ReadRequest(kind, u, 0, pc, page) EXCEPT !.skip = skip, !.limit = limit]

\* The response of a read: the posts shown, each with its is_liked, and total.
ReadResponse(q, code, shown) ==
    [kind |-> q.kind, user |-> q.user, post_id |-> q.post_id, status |-> code,
     posts |-> shown, total |-> q.total]

\* Lines 459-462: GET /posts from user u selects the page.
ListSelect(u, skip, limit) ==
    /\ arrivals < MaxReq
    /\ arrivals' = arrivals + 1
    /\ IF PageRefused(skip, limit)
       THEN /\ response' = ReadResponse(
                   ListRequest("list", u, "g_posts", <<>>, skip, limit), 500, <<>>)
            /\ inflight' = inflight
       ELSE /\ inflight' = inflight (+) SetToBag({
                   ListRequest("list", u, "g_count", Page(DOMAIN posts, skip, limit),
                               skip, limit)})
            /\ response' = response
    /\ UNCHANGED <<posts, post_likes, next_post_id, blobs, next_blob, tempfiles>>

\* Lines 464-481: `Post.count()`, then the authors (User rows never change);
\* an empty page is answered without asking for the likes.
ListCount(q) ==
    /\ q.kind = "list" /\ q.pc = "g_count"
    /\ LET q2 == [q EXCEPT !.total = Cardinality(DOMAIN posts), !.pc = "g_likes"]
       IN  IF q.page = <<>>
           THEN /\ response' = ReadResponse(q2, 200, <<>>)
                /\ inflight' = Answered(q)
           ELSE /\ inflight' = Moved(q, q2)
                /\ response' = response
    /\ UNCHANGED <<posts, post_likes, next_post_id, blobs, next_blob, arrivals, tempfiles>>

\* Lines 476-501: the caller's like rows on the posts of the page are
\* selected; is_liked = post["id"] in liked_post_ids.
ListLikes(q) ==
    /\ q.kind = "list" /\ q.pc = "g_likes"
    /\ LET liked_post_ids == {p \in PostIds : LikesOf(q.user, p) > 0 /\
                                  \E i \in DOMAIN q.page : q.page[i] = p}
       IN  response' = ReadResponse(q, 200,
              [i \in DOMAIN q.page |->
                  [id |-> q.page[i], is_liked |-> q.page[i] \in liked_post_ids]])
    /\ inflight' = Answered(q)
    /\ UNCHANGED <<posts, post_likes, next_post_id, blobs, next_blob, arrivals, tempfiles>>

\* Lines 506-514: GET /posts/my-posts from user u selects the page of u's posts.
MineSelect(u, skip, limit) ==
    /\ arrivals < MaxReq
    /\ arrivals' = arrivals + 1
    /\ IF PageRefused(skip, limit)
       THEN /\ response' = ReadResponse(
                   ListRequest("mine", u, "m_posts", <<>>, skip, limit), 500, <<>>)
            /\ inflight' = inflight
       ELSE /\ inflight' = inflight (+) SetToBag({
                   ListRequest("mine", u, "m_count", Page(PostsOf(u), skip, limit),
                               skip, limit)})
            /\ response' = response
    /\ UNCHANGED <<posts, post_likes, next_post_id, blobs, next_blob, tempfiles>>

\* Lines 516-530: the count of u's posts; every post is shown with
\* `formatted_post["is_liked"] = True` (line 527).
MineCount(q) ==
    /\ q.kind = "mine" /\ q.pc = "m_count"
    /\ response' = ReadResponse([q EXCEPT !.total = Cardinality(PostsOf(q.user))], 200,
                      [i \in DOMAIN q.page |-> [id |-> q.page[i], is_liked |-> TRUE]])
    /\ inflight' = Answered(q)
    /\ UNCHANGED <<posts, post_likes, next_post_id, blobs, next_blob, arrivals, tempfiles>>

\* Lines 535-552: GET /posts/{p} from user u: 404 when the post is missing;
\* then the author (User rows never change).
GetSelect(u, p) ==
    /\ arrivals < MaxReq
    /\ arrivals' = arrivals + 1
    /\ IF SelectPost(p) = <<>>
       THEN /\ response' = ReadResponse(ReadRequest("get", u, p, "o_post", <<>>), 404, <<>>)
            /\ inflight' = inflight
       ELSE /\ inflight' = inflight (+)
                   SetToBag({[ReadRequest("get", u, p, "o_liked", <<p>>)
                                 EXCEPT !.post = SelectPost(p)]})
            /\ response' = response
    /\ UNCHANGED <<posts, post_likes, next_post_id, blobs, next_blob, tempfiles>>

\* Lines 555-560: `.first()` of the caller's like rows on the post;
\* is_liked = liked is not None, and the row selected at line 537 is
\* formatted (the listen count by line 91).
GetLiked(q) ==
    /\ q.kind = "get" /\ q.pc = "o_liked"
    /\ \E r \in RandomListens :
         response' = ReadResponse(q, 200,
                        <<[id |-> q.post_id, is_liked |-> LikesOf(q.user, q.post_id) > 0,
                           listen_count |-> ListenCountShown(q.post[1], r)]>>)
    /\ inflight' = Answered(q)
    /\ UNCHANGED <<posts, post_likes, next_post_id, blobs, next_blob, arrivals, tempfiles>>

\* ------------------------------------------------------------------ specifications
Next ==
    \/ \E u \in Users, voiced \in BOOLEAN : CreatePost(u, voiced)
    \/ \E u \in Users, p \in PostIds : ToggleSelectPost(u, p)
    \/ \E q \in Running : ToggleSelectLike(q)
    \/ \E q \in Running : ToggleInsert(q)
    \/ \E q \in Running : ToggleUpdate(q)
    \/ \E q \in Running : ToggleRespond(q)
    \/ \E p \in PostIds : ListenSelectPost(p)
    \/ \E q \in Running : ListenUpdate(q)
    \/ \E u \in Users, p \in PostIds : DeleteSelectPost(u, p)
    \/ \E q \in Running : DeleteLikes(q)
    \/ \E q \in Running : DeleteBlob(q)

\* Requests are handled concurrently, in any interleaving of their statements.
Spec == Init /\ [][Next]_vars

\* No request is in flight.
Idle == inflight = EmptyBag

\* One request at a time: a request arrives only when none is in flight.
NextSerial ==
    \/ \E u \in Users, voiced \in BOOLEAN : Idle /\ CreatePost(u, voiced)
    \/ \E u \in Users, p \in PostIds : Idle /\ ToggleSelectPost(u, p)
    \/ \E q \in Running : ToggleSelectLike(q)
    \/ \E q \in Running : ToggleInsert(q)
    \/ \E q \in Running : ToggleUpdate(q)
    \/ \E q \in Running : ToggleRespond(q)
    \/ \E p \in PostIds : Idle /\ ListenSelectPost(p)
    \/ \E q \in Running : ListenUpdate(q)
    \/ \E u \in Users, p \in PostIds : Idle /\ DeleteSelectPost(u, p)
    \/ \E q \in Running : DeleteLikes(q)
    \/ \E q \in Running : DeleteBlob(q)

SpecSerial == Init /\ [][NextSerial]_vars

\* The toggles in flight on post p.
TogglesOn(p) == {q \in Running : q.kind = "toggle" /\ q.post_id = p}

\* Likes and listens only, and no user has two toggles in flight on one post:
\* the toggles that overlap on a post are those of different users.
NextDistinct ==
    \/ \E u \in Users, voiced \in BOOLEAN : CreatePost(u, voiced)
    \/ \E u \in Users, p \in PostIds :
         /\ \A q \in TogglesOn(p) : q.user # u
         /\ ToggleSelectPost(u, p)
    \/ \E q \in Running : ToggleSelectLike(q)
    \/ \E q \in Running : ToggleInsert(q)
    \/ \E q \in Running : ToggleUpdate(q)
    \/ \E q \in Running : ToggleRespond(q)
    \/ \E p \in PostIds : ListenSelectPost(p)
    \/ \E q \in Running : ListenUpdate(q)

SpecDistinct == Init /\ [][NextDistinct]_vars

\* Likes and listens, handled concurrently, over one post more than
\* MaxPosts, so that a request on one post always has another post beside it.
FramePosts == MaxPosts + 1

NextFrame ==
    \/ \E u \in Users : CreatePostUpTo(u, FALSE, FramePosts)
    \/ \E u \in Users, p \in 1..FramePosts : ToggleSelectPost(u, p)
    \/ \E q \in Running : ToggleSelectLike(q)
    \/ \E q \in Running : ToggleInsert(q)
    \/ \E q \in Running : ToggleUpdate(q)
    \/ \E q \in Running : ToggleRespond(q)
    \/ \E p \in 1..FramePosts : ListenSelectPost(p)
    \/ \E q \in Running : ListenUpdate(q)

SpecFrame == Init /\ [][NextFrame]_vars

\* The users whose creation and transcription requests are followed; the
\* handlers copy the caller's id into the row's author and use it nowhere else.
Callers == {1}

\* The creation and transcription handlers, one request at a time: these
\* handlers share nothing but the Serial ids and the fresh object names.
\* Every request draws the one tag "music"; SpecTags follows all draws.
NextCreate ==
    \/ \E u \in Callers, content \in Texts, style \in Styles :
         Idle /\ CreateTextArrive(u, content, style, <<"music">>)
    \/ \E q \in Running : CreateTextVoice(q)
    \/ \E q \in Running : CreateTextSave(q)
    \/ \E q \in Running : CreateTextRespond(q)
    \/ \E u \in Callers, file \in Files : Idle /\ RecordingArrive(u, file)
    \/ \E q \in Running : RecordingRead(q)
    \/ \E q \in Running, served \in BOOLEAN, raw \in Texts : Transcribe(q, served, raw)
    \/ \E q \in Running : RecordingUpload(q, <<"music">>)
    \/ \E q \in Running : RecordingSave(q)
    \/ \E q \in Running : RecordingRespond(q)
    \/ \E u \in Callers, file \in Files : Idle /\ TranscribeArrive(u, file)
    \/ \E q \in Running : TranscribeRead(q)
    \/ \E q \in Running : TranscribeRespond(q)

SpecCreate == Init /\ [][NextCreate]_vars

\* Posts are created, liked, listened to and read, in any interleaving.
NextRead ==
    \/ \E u \in Users, voiced \in BOOLEAN : CreatePost(u, voiced)
    \/ \E u \in Users, p \in PostIds : ToggleSelectPost(u, p)
    \/ \E q \in Running : ToggleSelectLike(q)
    \/ \E q \in Running : ToggleInsert(q)
    \/ \E q \in Running : ToggleUpdate(q)
    \/ \E q \in Running : ToggleRespond(q)
    \/ \E u \in Users, skip \in Skips, limit \in Limits : ListSelect(u, skip, limit)
    \/ \E q \in Running : ListCount(q)
    \/ \E q \in Running : ListLikes(q)
    \/ \E u \in Users, skip \in Skips, limit \in Limits : MineSelect(u, skip, limit)
    \/ \E q \in Running : MineCount(q)
    \/ \E u \in Users, p \in PostIds : GetSelect(u, p)
    \/ \E q \in Running : GetLiked(q)
    \/ \E p \in PostIds : ListenSelectPost(p)
    \/ \E q \in Running : ListenUpdate(q)

SpecRead == Init /\ [][NextRead]_vars

\* The recording a client sends in SpecTags.
TaggedFile == [filename |-> <<"a", ".", "m", "p", "3">>, size |-> 0]

\* Posts are created on both paths with every draw of tags, from the text
\* "a" or a recording that says "a", and are liked, listened to and deleted
\* by their author, one request at a time.
NextTags ==
    \/ \E u \in Callers, tag_list \in TagLists :
         Idle /\ CreateTextArrive(u, <<"a">>, "natural", tag_list)
    \/ \E q \in Running : CreateTextVoice(q)
    \/ \E q \in Running : CreateTextSave(q)
    \/ \E q \in Running : CreateTextRespond(q)
    \/ \E u \in Callers : Idle /\ RecordingArrive(u, TaggedFile)
    \/ \E q \in Running : RecordingRead(q)
    \/ \E q \in Running, served \in BOOLEAN : Transcribe(q, served, <<"a">>)
    \/ \E q \in Running, tag_list \in TagLists : RecordingUpload(q, tag_list)
    \/ \E q \in Running : RecordingSave(q)
    \/ \E q \in Running : RecordingRespond(q)
    \/ \E u \in Callers, p \in PostIds : Idle /\ ToggleSelectPost(u, p)
    \/ \E q \in Running : ToggleSelectLike(q)
    \/ \E q \in Running : ToggleInsert(q)
    \/ \E q \in Running : ToggleUpdate(q)
    \/ \E q \in Running : ToggleRespond(q)
    \/ \E p \in PostIds : Idle /\ ListenSelectPost(p)
    \/ \E q \in Running : ListenUpdate(q)
    \/ \E u \in Callers, p \in PostIds : Idle /\ DeleteSelectPost(u, p)
    \/ \E q \in Running : DeleteLikes(q)
    \/ \E q \in Running : DeleteBlob(q)

SpecTags == Init /\ [][NextTags]_vars

\* ------------------------------------------------------------------ claims
\* The users that hold a PostLike row for post p.
Likers(p) == {u \in Users : LikesOf(u, p) > 0}

\* C1: in every reachable state, the states between the statements of
\* in-flight toggles included, each post's likes counter equals the number
\* of PostLike rows that reference the post.
LikesCounterMatchesLedger ==
    \A p \in DOMAIN posts : posts[p].likes = LikeRows(p)

\* C2: in every reachable state there is at most one PostLike row per
\* (user, post) pair, also when one user has two toggles in flight on a post.
AtMostOneLikePerPair ==
    \A l \in BagToSet(post_likes) : CopiesIn(l, post_likes) <= 1

\* C3: when the toggles that run concurrently on a post are those of
\* different users, then once all of them have completed the post's likes
\* counter equals the number of users that hold a PostLike row for it.
DistinctUsersCounterExact ==
    \A p \in DOMAIN posts :
        TogglesOn(p) = {} => posts[p].likes = Cardinality(Likers(p))

\* C3 witness: toggles of two users on one post have completed and both
\* hold a row.
TwoUsersLikedOnePost ==
    \E p \in DOMAIN posts :
        /\ TogglesOn(p) = {}
        /\ Cardinality(Likers(p)) = 2
        /\ posts[p].likes = 2

\* Request q is answered in this step.
AnsweredNow(q) == BagIn(q, inflight) /\ inflight' = Answered(q)

\* C4: a toggle of u on an existing post p that runs alone: if a PostLike
\* row for (u, p) exists, it removes the row and decreases p's likes counter
\* by exactly 1; otherwise it inserts one row for (u, p) and increases the
\* counter by exactly 1. Stated of the step that answers the toggle, against
\* the counter it selected on arrival; checked with one request at a time.
ToggleAloneFlips ==
    [][\A q \in Running :
         (q.kind = "toggle" /\ AnsweredNow(q)) =>
            LET p == q.post_id
                had == IF q.pc = "t_like" THEN LikesOf(q.user, p) > 0
                                          ELSE q.existing_like # <<>>
                before == q.post[1].likes
            IN  IF had
                THEN LikesOf(q.user, p)' = 0 /\ posts'[p].likes = before - 1
                ELSE LikesOf(q.user, p)' = 1 /\ posts'[p].likes = before + 1
      ]_vars

\* C5: non-overlapping toggles by one user on one existing post, nothing else
\* answered in between: the returned like state alternates, and the counter
\* moves with it (so every second call is back where it started). Stated of
\* each toggle answered right after a toggle of the same user on the same
\* post; checked with one request at a time.
ToggleAlternates ==
    [][\A q \in Running :
         ( /\ q.kind = "toggle" /\ AnsweredNow(q)
           /\ response.kind = "toggle" /\ response.status = 200
           /\ response.user = q.user /\ response.post_id = q.post_id )
         => /\ response'.status = 200
            /\ response'.is_liked = ~response.is_liked
            /\ response'.total_likes =
                  response.total_likes + (IF response.is_liked THEN -1 ELSE 1)
      ]_vars

\* C6: a toggle that has mutated the PostLike row and the counter returns a
\* result when it is answered, and that result reports is_liked = true
\* exactly when its mutation inserted the row, and as total_likes the post's
\* counter as it stands after the toggle's own mutation.
ToggleResultReportsMutation ==
    [][\A q \in Running :
         (q.kind = "toggle" /\ q.pc = "t_read" /\ AnsweredNow(q)) =>
            /\ response'.status = 200
            /\ response'.kind = "toggle"
            /\ response'.user = q.user /\ response'.post_id = q.post_id
            /\ response'.is_liked = (q.existing_like = <<>>)
            /\ q.post_id \in DOMAIN posts
            /\ response'.total_likes = posts[q.post_id].likes
      ]_vars

\* C6 witness: a like was answered with the counter read back after another
\* like on the same post had been counted too.
LikeAnsweredWithTotalTwo ==
    /\ response.kind = "toggle" /\ response.status = 200
    /\ response.is_liked /\ response.total_likes = 2

\* C7: a toggle on a post id that does not exist is answered 404 on arrival,
\* is never taken up, creates no PostLike row and changes no counter.
ToggleOnMissingPostIs404 ==
    [][arrivals' = arrivals + 1 =>
         /\ \A q \in BagToSet(inflight') :
              (q.kind = "toggle" /\ CopiesIn(q, inflight') > CopiesIn(q, inflight))
              => q.post_id \in DOMAIN posts
         /\ \A u \in Users, p \in PostIds :
              (p \notin DOMAIN posts /\ response'.kind = "toggle" /\ inflight' = inflight
               /\ response'.user = u /\ response'.post_id = p)
              => /\ response'.status = 404
                 /\ UNCHANGED <<posts, post_likes, blobs>>
      ]_vars

\* C7 witness: a toggle has been answered 404.
ToggleAnswered404 == response.kind = "toggle" /\ response.status = 404

\* C8: every IncrementListenCount call that completes on an existing post
\* adds exactly 1 to the post's listen counter and nothing else changes it,
\* whoever calls and however the calls interleave: after N calls the counter
\* is its value before plus N.
ListenCountExact ==
    [][/\ \A p \in DOMAIN posts \cap DOMAIN posts' :
            posts'[p].listen_count = posts[p].listen_count +
                 (IF \E q \in Running :
                        q.kind = "listen" /\ q.post_id = p /\ AnsweredNow(q)
                  THEN 1 ELSE 0)
       /\ \A p \in DOMAIN posts' \ DOMAIN posts : posts'[p].listen_count = 0
      ]_vars

\* C8 witness: two listen calls on one post have completed.
TwoListensCounted ==
    \E p \in DOMAIN posts : posts[p].listen_count = 2 /\ Idle

DeleteRemovesPostLast ==
    [][/\ \A q \in Running :
            (q.kind = "delete" /\ AnsweredNow(q)) => q.post_id \notin DOMAIN posts'
       /\ \A p \in DOMAIN posts : p \notin DOMAIN posts' => LikeRows(p) = 0
      ]_vars

\* C11: a delete of a post id that does not exist is answered 404, whoever
\* asks (existence is checked before ownership), and a delete of an existing
\* post by a user who is not its author is answered 403; in both cases the
\* request is not taken up and no PostLike row, blob or Post row is removed.
\* A delete by the author is answered neither way on arrival.
DeleteRefusedChangesNothing ==
    [][\A u \in Users, p \in PostIds :
         ( /\ arrivals' = arrivals + 1
           /\ \/ /\ inflight' = inflight /\ response'.kind = "delete"
                 /\ response'.user = u /\ response'.post_id = p
              \/ \E q \in BagToSet(inflight') :
                    /\ CopiesIn(q, inflight') > CopiesIn(q, inflight)
                    /\ q.kind = "delete" /\ q.user = u /\ q.post_id = p )
         => IF p \notin DOMAIN posts
            THEN /\ inflight' = inflight /\ response'.status = 404
                 /\ UNCHANGED <<posts, post_likes, blobs>>
            ELSE IF posts[p].author # u
            THEN /\ inflight' = inflight /\ response'.status = 403
                 /\ UNCHANGED <<posts, post_likes, blobs>>
            ELSE inflight' # inflight
      ]_vars

\* C11 witness: a delete by a non-author was answered 403 on a post that
\* has an audio blob and a PostLike row, both still there.
DeleteAnswered403 ==
    /\ response.kind = "delete" /\ response.status = 403
    /\ response.post_id \in DOMAIN posts
    /\ posts[response.post_id].voice_file_path \in blobs
    /\ LikeRows(response.post_id) > 0

\* C12: when the blob delete of an authorized delete fails, the failure is
\* swallowed: the step that ends the delete leaves the blob in the bucket,
\* removes the Post row and reports success.
FailedBlobDeleteStillDeletes ==
    [][\A q \in Running :
         ( /\ q.kind = "delete" /\ q.pc = "d_blob" /\ AnsweredNow(q)
           /\ q.post[1].voice_file_path \in blobs' )
         => /\ response'.status = 200
            /\ q.post_id \notin DOMAIN posts'
      ]_vars

\* Request q takes a step.
Stepped(q) == CopiesIn(q, inflight') < CopiesIn(q, inflight)

\* C13: when the voice step of a create_post request fails (no URL comes
\* back), the request still saves a post that carries the trimmed content,
\* a null audio URL and duration 0, and is answered with success.
SynthesisFailureKeepsPost ==
    [][\A q \in Running :
         (q.kind = "create" /\ Stepped(q)) =>
            /\ (q.pc = "c_voice" /\ blobs' = blobs) =>
                  BagIn([q EXCEPT !.pc = "c_save", !.voice_file_url = 0,
                                  !.duration = 0], inflight')
            /\ (q.pc = "c_save" /\ q.voice_file_url = 0) =>
                  /\ next_post_id \in DOMAIN posts'
                  /\ posts'[next_post_id] =
                        NewPost(q.user, Strip(q.content), 0, 0, q.voice_style,
                                q.tag_list)
                  /\ posts'[next_post_id].text_content # <<>>
                  /\ BagIn([q EXCEPT !.pc = "c_read", !.post_id = next_post_id],
                           inflight')
            /\ (q.pc = "c_read" /\ q.voice_file_url = 0) =>
                  /\ response'.status = 200
                  /\ response'.kind = "create" /\ response'.post_id = q.post_id
      ]_vars

\* C13 witness: a create_post request was answered with success after its
\* voice step had uploaded the audio and then failed: the post has no audio
\* URL and duration 0.
CreatedWithoutVoice ==
    /\ response.kind = "create" /\ response.status = 200
    /\ response.post_id \in DOMAIN posts
    /\ posts[response.post_id].voice_file_path = 0
    /\ posts[response.post_id].duration = 0
    /\ blobs # {}

\* C14: in create_post_from_recording and transcribe_audio_only, a
\* transcription call that fails ends the request with 500, and one that
\* succeeds with an empty or whitespace-only text ends it with the
\* no-speech error, status 400.
EmptyTranscriptIs400 ==
    [][\A q \in Running :
         ( /\ q.kind \in {"record", "transcribe"} /\ q.pc = "r_check"
           /\ Stepped(q) )
         => IF q.transcribed_text = <<>>
            THEN response'.status = 500
            ELSE Strip(q.transcribed_text[1]) = <<>> =>
                   /\ response'.status = 400
                   /\ response'.detail = "No speech detected in the audio file"
      ]_vars

\* C15: a create_post_from_recording request whose transcription failed or
\* came back empty ends at the transcript checks with an error, and neither
\* that step nor any step of the request before it persists a post or
\* uploads a blob.
FailedTranscriptLeavesNothing ==
    [][\A q \in Running :
         (q.kind = "record" /\ Stepped(q)) =>
            /\ q.pc \in {"r_read", "r_transcribe"} =>
                  UNCHANGED <<posts, next_post_id, blobs, next_blob>>
            /\ ( /\ q.pc = "r_check"
                 /\ \/ q.transcribed_text = <<>>
                    \/ Strip(q.transcribed_text[1]) = <<>> ) =>
                  /\ AnsweredNow(q)
                  /\ response'.kind = "record" /\ response'.status \in {400, 500}
                  /\ q.post_id = 0 /\ q.original_audio_url = 0
                  /\ UNCHANGED <<posts, next_post_id, blobs, next_blob>>
      ]_vars

\* C15 witness: a recording request ended at the transcript checks, with no
\* post and no blob.
RecordingEndedAtTranscript ==
    /\ response.kind = "record" /\ response.status = 500
    /\ response.detail = "Failed to transcribe audio. Please try again."
    /\ posts = <<>> /\ blobs = {}

\* C16: when a create_post_from_recording or transcribe_audio_only request
\* finishes, on whatever exit path, its temporary file is gone, or at least
\* its removal was attempted (temp_file_path names it) and failed.
TempFileReleased ==
    [][\A q \in Running :
         (q.kind \in {"record", "transcribe"} /\ AnsweredNow(q)) =>
            \/ q.temp_file \notin tempfiles'
            \/ q.temp_file_path = q.temp_file
      ]_vars

\* C17: a create_post_from_recording request with an unsupported file name
\* extension or a payload over 10 MiB is never taken up, and a request that
\* is not taken up is answered 400 with no temporary file made, no blob
\* uploaded and no post persisted.
BadUploadRefusedFirst ==
    [][/\ \A q \in BagToSet(inflight') :
            (q.kind = "record" /\ CopiesIn(q, inflight') > CopiesIn(q, inflight))
            => /\ SplitExt(Lower(q.file.filename)) \in SUPPORTED_AUDIO_FORMATS
               /\ q.file.size <= 10 * 1024 * 1024
       /\ ( /\ arrivals' = arrivals + 1 /\ inflight' = inflight
            /\ response'.kind = "record" )
          => /\ response'.status = 400
             /\ UNCHANGED <<posts, post_likes, blobs, next_blob, tempfiles>>
      ]_vars

\* C17 witness: an oversized recording was refused.
OversizedRecordingRefused ==
    /\ response.kind = "record" /\ response.status = 400
    /\ response.detail = "Audio file too large. Maximum size is 10MB"

\* C18: a create_post request whose content is empty or whitespace-only is
\* never taken up (so the synthesis service is not called), and a request
\* that is not taken up is answered 400 with no blob uploaded and no post
\* persisted.
BlankContentRefused ==
    [][/\ \A q \in BagToSet(inflight') :
            (q.kind = "create" /\ CopiesIn(q, inflight') > CopiesIn(q, inflight))
            => \E i \in 1..Len(q.content) : q.content[i] \notin Whitespace
       /\ ( /\ arrivals' = arrivals + 1 /\ inflight' = inflight
            /\ response'.kind = "create" )
          => /\ response'.status = 400
             /\ UNCHANGED <<posts, post_likes, blobs, next_blob, tempfiles>>
      ]_vars

\* C18 witness: a create_post request was refused after another one had
\* created a post.
BlankContentAnswered400 ==
    /\ response.kind = "create" /\ response.status = 400
    /\ posts # <<>>

\* C19: every create_post_from_recording request answered with success has
\* persisted a post whose text is the transcribed text, whose voice style is
\* "original" and whose audio URL is non-null and names the uploaded
\* recording.
RecordingSuccessHasAudio ==
    [][\A q \in Running :
         (q.kind = "record" /\ AnsweredNow(q) /\ response'.status = 200) =>
            /\ q.post_id \in DOMAIN posts'
            /\ posts'[q.post_id].text_content = q.transcribed_text[1]
            /\ posts'[q.post_id].voice_style = "original"
            /\ posts'[q.post_id].voice_file_path # 0
            /\ posts'[q.post_id].voice_file_path \in blobs'
      ]_vars

\* C20: in every read response (get_posts, get_my_posts, get_post) the
\* is_liked flag of a post shown is true exactly when a PostLike row for
\* (caller, post) exists as the response is made.
ReadShowsLikedIffRow ==
    [][\A q \in Running :
         ( /\ q.kind \in {"list", "mine", "get"} /\ AnsweredNow(q)
           /\ response'.status = 200 )
         => \A i \in DOMAIN response'.posts :
              response'.posts[i].is_liked =
                 (LikesOf(q.user, response'.posts[i].id) > 0)
      ]_vars

Listed(q) == IF q.kind = "mine" THEN PostsOf(q.user) ELSE DOMAIN posts

\* C22: for every offset and limit a listing (get_posts, get_my_posts) is
\* taken up and answered with success, also when its page is empty; the
\* page it selects is in descending order of creation, leaves out exactly
\* the `skip` latest posts and holds at most `limit` posts; the response
\* shows that page, with a total that is the number of all posts (of the
\* caller's posts for get_my_posts) as counted by the request's count
\* statement, whatever the offset and limit.
ListingPagesAndCounts ==
    [][/\ ( /\ arrivals' = arrivals + 1 /\ inflight' = inflight
            /\ response'.kind \in {"list", "mine"} )
          => response'.status = 200
       /\ \A q \in BagToSet(inflight') :
            ( /\ q.kind \in {"list", "mine"}
              /\ CopiesIn(q, inflight') > CopiesIn(q, inflight)
              /\ arrivals' = arrivals + 1 )
            => /\ Len(q.page) <= q.limit
               /\ \A i \in DOMAIN q.page :
                    /\ q.page[i] \in Listed(q)
                    /\ Cardinality({p \in Listed(q) : p > q.page[i]}) = q.skip + i - 1
               /\ \/ Len(q.page) = q.limit
                  \/ Len(q.page) = Cardinality(Listed(q)) - q.skip
                  \/ (Len(q.page) = 0 /\ Cardinality(Listed(q)) <= q.skip)
       /\ \A q \in Running :
            (q.kind \in {"list", "mine"} /\ Stepped(q))
            => LET counted == IF q.pc \in {"g_count", "m_count"}
                              THEN Cardinality(Listed(q)) ELSE q.total
               IN  IF AnsweredNow(q)
                   THEN /\ response'.status = 200
                        /\ Len(response'.posts) = Len(q.page)
                        /\ \A i \in DOMAIN q.page : response'.posts[i].id = q.page[i]
                        /\ response'.total = counted
                   ELSE BagIn([q EXCEPT !.total = counted, !.pc = "g_likes"], inflight')
      ]_vars

\* C23: every post, on whichever path it was created, has between 1 and 3
\* tags, pairwise distinct and all of the vocabulary, and the tag list of a
\* post never changes once the post exists.
TagsWellFormedAndFixed ==
    [][/\ \A p \in DOMAIN posts' :
            LET tags == posts'[p].tags
            IN  /\ Len(tags) \in 1..3
                /\ \A i, j \in DOMAIN tags : i # j => tags[i] # tags[j]
                /\ \A i \in DOMAIN tags :
                      \E k \in DOMAIN available_tags : tags[i] = available_tags[k]
       /\ \A p \in DOMAIN posts :
            p \in DOMAIN posts' => posts'[p].tags = posts[p].tags
      ]_vars

\* C23 witness: a post created from a recording with three tags has been
\* liked.
ThreeTagsAfterLike ==
    \E p \in DOMAIN posts :
        /\ posts[p].voice_style = "original" /\ Len(posts[p].tags) = 3
        /\ posts[p].likes = 1

\* The positions of the handlers, each handler's in the order of its code.
Positions ==
    << "c_voice", "c_save", "c_read",
       "r_read", "r_transcribe", "r_check", "r_save", "r_respond",
       "t_like", "t_insert", "t_update", "t_read",
       "l_update", "d_likes", "d_blob",
       "g_count", "g_likes", "m_count", "o_liked" >>

Rank(pc) == CHOOSE i \in DOMAIN Positions : Positions[i] = pc

\* The requests that entered or moved in this step.
Entered == {q \in BagToSet(inflight') : CopiesIn(q, inflight') > CopiesIn(q, inflight)}

\* C24: in both creation paths a request is validated on arrival, then
\* takes the speech step (synthesis with its upload, or transcription), the
\* upload, the save and the response in this order: a post row is inserted
\* only by the save step, which comes after the speech step and the upload
\* attempt, objects are uploaded only by the steps before it, and a success
\* response is produced only by the last step, with the post persisted.
CreationStepsInOrder ==
    [][/\ arrivals' = arrivals + 1 =>
            \A q \in Entered :
               /\ q.kind = "create" =>
                     q.pc = "c_voice" /\ Strip(q.content) # <<>>
               /\ q.kind = "record" =>
                     /\ q.pc = "r_read"
                     /\ SplitExt(Lower(q.file.filename)) \in SUPPORTED_AUDIO_FORMATS
                     /\ q.file.size <= 10 * 1024 * 1024
       /\ \A q \in Running :
            (q.kind \in {"create", "record"} /\ Stepped(q)) =>
               /\ \/ AnsweredNow(q)
                  \/ \E q2 \in Entered :
                        q2.kind = q.kind /\ Rank(q2.pc) = Rank(q.pc) + 1
               /\ blobs' # blobs => q.pc \in {"c_voice", "r_check"}
               /\ (q.pc = "r_check" /\ blobs' # blobs) => q.transcribed_text # <<>>
               /\ posts' # posts => q.pc \in {"c_save", "r_save"}
               /\ (AnsweredNow(q) /\ response'.status = 200) =>
                     /\ q.pc \in {"c_read", "r_respond"}
                     /\ q.post_id \in DOMAIN posts
      ]_vars

\* C24 witness: a recording went through all its steps: it was answered
\* with success and its post names the uploaded object.
RecordingCreatedInOrder ==
    /\ response.kind = "record" /\ response.status = 200
    /\ response.post_id \in DOMAIN posts
    /\ posts[response.post_id].voice_file_path \in blobs

\* C26: within one request no external call is issued twice: every step of
\* a request either ends it or moves it to a later position of its handler,
\* so the call sites (synthesis and its upload at c_voice, transcription at
\* r_transcribe, upload at r_check, blob delete at d_blob) are each passed at
\* most once, also after a failure.
NoCallIsRepeated ==
    [][\A q \in Running :
         Stepped(q) =>
            \/ AnsweredNow(q)
            \/ \E q2 \in Entered :
                  /\ q2.kind = q.kind /\ q2.user = q.user
                  /\ Rank(q2.pc) > Rank(q.pc)
                  /\ inflight' = Moved(q, q2)
      ]_vars

\* C26 witness: the synthesis call of a create_post request failed and the
\* request went on without audio: no object was ever uploaded.
SynthesisFailedOnce ==
    /\ response.kind = "create" /\ response.status = 200
    /\ response.post_id \in DOMAIN posts
    /\ posts[response.post_id].voice_file_path = 0
    /\ next_blob = 1

\* The post_likes rows other than the one of user u on post p are the same
\* before and after the step.
OtherRowsUnchanged(u, p) ==
    \A l \in BagToSet(post_likes) \cup BagToSet(post_likes') :
       l # NewLike(u, p) => CopiesIn(l, post_likes') = CopiesIn(l, post_likes)

\* C25: a step of a like request of user u on post p changes nothing but
\* the post_likes rows of (u, p) and the likes counter of p, and a step of a
\* listen request on p changes nothing but the listen counter of p: no post
\* appears or disappears, every other post keeps its whole row, p keeps its
\* text, audio URL, duration, voice style, tags and author, every other
\* post_likes row stays, and the bucket is untouched.
LikeAndListenFrame ==
    [][\A q \in Running :
         Stepped(q) =>
            /\ q.kind = "toggle" =>
                  /\ DOMAIN posts' = DOMAIN posts
                  /\ \A p \in DOMAIN posts :
                        posts'[p] = IF p = q.post_id
                                    THEN [posts[p] EXCEPT !.likes = posts'[p].likes]
                                    ELSE posts[p]
                  /\ OtherRowsUnchanged(q.user, q.post_id)
                  /\ UNCHANGED <<blobs, next_post_id>>
            /\ q.kind = "listen" =>
                  /\ DOMAIN posts' = DOMAIN posts
                  /\ \A p \in DOMAIN posts :
                        posts'[p] = IF p = q.post_id
                                    THEN [posts[p] EXCEPT
                                            !.listen_count = posts'[p].listen_count]
                                    ELSE posts[p]
                  /\ UNCHANGED <<post_likes, blobs, next_post_id>>
      ]_vars

\* C25 witness: with two posts in the table, a like on the first and a
\* listen on the second have been completed, and each post shows only its own.
LikeAndListenOnTwoPosts ==
    /\ DOMAIN posts = {1, 2}
    /\ posts[1].likes = 1 /\ posts[1].listen_count = 0
    /\ posts[2].likes = 0 /\ posts[2].listen_count = 1
    /\ inflight = EmptyBag

\* C27: a delete request that ends in an error has removed nothing: the
\* step that answers it with an error status leaves the posts table (the
\* row and its likes counter), the post_likes rows and the bucket as they
\* were, and the post_likes rows and the audio object of its post are still
\* there.
FailedDeleteChangesNothing ==
    [][\A q \in Running :
         (q.kind = "delete" /\ Stepped(q) /\ AnsweredNow(q) /\ response'.status # 200) =>
            /\ UNCHANGED <<posts, post_likes, blobs>>
            /\ q.post_id \in DOMAIN posts'
            /\ q.post[1].voice_file_path # 0 => q.post[1].voice_file_path \in blobs'
      ]_vars

\* C28: once the creation requests have finished (none is in flight), every
\* object in the bucket is the audio of a persisted post: no upload is left
\* behind without a row that references it.
NoOrphanedBlob ==
    Idle => \A b \in blobs : \E p \in DOMAIN posts : posts[p].voice_file_path = b

\* C29: the listen count shown by get_post is the listen counter of the
\* row the request selected, also when that counter is 0 (so that two reads
\* with no listen in between show the same number).
ShownListenCountIsStored ==
    [][\A q \in Running :
         ( /\ q.kind = "get" /\ Stepped(q) /\ AnsweredNow(q)
           /\ response'.status = 200 )
         => response'.posts[1].listen_count = q.post[1].listen_count
      ]_vars

=============================================================================
